---- MODULE Spec2Model ----
(***************************************************************************)
(* TransBus seat inventory and booking consistency.                        *)
(*                                                                         *)
(* The repository ships independent backends that share no state:          *)
(*   "server" - src/server.js: Express monolith with JSON-file snapshots   *)
(*              (src/Backend/server.js is the same handlers, memory only)  *)
(*   "mvc"    - src/controllers + src/models + src/routes                  *)
(* A process runs exactly one of them; `deployment` records which.         *)
(*                                                                         *)
(* JavaScript strings are sequences of symbols; a missing or empty field   *)
(* is the empty sequence (both are falsy in the handlers' `!x` tests).     *)
(***************************************************************************)
EXTENDS Integers, Sequences, FiniteSets, Bags, TLC

VARIABLES
    deployment,          \* which backend this process runs
    availableRoutes,     \* server.js:34   routeKey -> route data
    bookedSeatsByRoute,  \* server.js:35   trip key -> set of seat strings
    ticketDatabase,      \* server.js:36   session id -> ticket
    bookingsFile,        \* data/bookings.json as written by saveBookings
    ticketsFile,         \* data/tickets.json as written by saveTickets
    routesFile,          \* data/routes.json as written by saveRoutes
    stripeSessions,      \* the payment provider's checkout sessions
    inflight,            \* bag of confirm handlers suspended on the provider lookup
    lastResponse,        \* the most recent HTTP response sent to a client
    clock,               \* wall clock read by new Date()
    payments,            \* models/Payment.js:18  session id -> payment record
    bookings,            \* models/Booking.js:18  referencia -> booking
    nextId               \* models/Booking.js:25

serverVars == <<availableRoutes, bookedSeatsByRoute, ticketDatabase, bookingsFile,
                ticketsFile, routesFile>>
mvcVars == <<payments, bookings, nextId>>
vars == <<deployment, availableRoutes, bookedSeatsByRoute, ticketDatabase, bookingsFile,
          ticketsFile, routesFile, stripeSessions, inflight, lastResponse, clock,
          payments, bookings, nextId>>

(***************************************************************************)
(* Bounds of the model.                                                    *)
(***************************************************************************)
MaxSessions == 2
MaxClock == 2

SessionIds == 1..MaxSessions

\* two request handlers may be suspended on the provider at the same time
Concurrency == {"first", "second"}

(***************************************************************************)
(* Strings.                                                                *)
(***************************************************************************)
Missing == <<>>

Truthy(s) == s # Missing

\* the characters of the model's alphabet that toLowerCase changes
ToLowerSym(c) ==
    CASE c = "G" -> "g"
      [] c = "M" -> "m"
      [] OTHER -> c

RECURSIVE TrimStart(_)
TrimStart(s) ==
    IF s # <<>> /\ Head(s) = " " THEN TrimStart(Tail(s)) ELSE s

RECURSIVE TrimEnd(_)
TrimEnd(s) ==
    IF s # <<>> /\ s[Len(s)] = " " THEN TrimEnd(SubSeq(s, 1, Len(s) - 1)) ELSE s

Trim(s) == TrimEnd(TrimStart(s))

ToLowerCase(s) == [i \in 1..Len(s) |-> ToLowerSym(s[i])]

Digits == <<"0", "1", "2", "3", "4", "5", "6", "7", "8", "9">>

\* Number.prototype.toString / String(n) for a non-negative integer
RECURSIVE NumToString(_)
NumToString(n) ==
    IF n < 10 THEN <<Digits[n + 1]>>
    ELSE NumToString(n \div 10) \o <<Digits[(n % 10) + 1]>>

DigitValue(c) == CHOOSE d \in 0..9 : Digits[d + 1] = c

IsDigit(c) == \E d \in 0..9 : Digits[d + 1] = c

\* parseFloat on a string of decimal digits; -1 stands for NaN
RECURSIVE ParseDigits(_, _)
ParseDigits(s, acc) ==
    IF s = <<>> \/ ~IsDigit(Head(s)) THEN acc
    ELSE ParseDigits(Tail(s), acc * 10 + DigitValue(Head(s)))

ParseFloat(s) == IF s = <<>> \/ ~IsDigit(Head(s)) THEN -1 ELSE ParseDigits(s, 0)

\* A seat as sent by a client: a JSON number or a JSON string.
Num(n) == [t |-> "num", v |-> n]
Str(s) == [t |-> "str", v |-> s]

\* `!asiento`
SeatFalsy(a) == IF a.t = "num" THEN a.v = 0 ELSE a.v = Missing

\* String(asiento)
StringOf(a) == IF a.t = "num" THEN NumToString(a.v) ELSE a.v

(***************************************************************************)
(* Trip key and seat ledger (server.js 46-65).                             *)
(***************************************************************************)
\* the key without trim() and toLowerCase()
getRouteKeyNoNormalize(origen, destino, fecha, horario) ==
    origen \o <<"|">> \o destino \o <<"|">> \o fecha \o <<"|">> \o horario

getRouteKey(origen, destino, fecha, horario) ==
    ToLowerCase(Trim(origen)) \o <<"|">> \o ToLowerCase(Trim(destino))
        \o <<"|">> \o fecha \o <<"|">> \o horario

SeatsOf(ledger, key) == IF key \in DOMAIN ledger THEN ledger[key] ELSE {}

isSeatBooked(ledger, origen, destino, fecha, horario, asiento) ==
    StringOf(asiento) \in SeatsOf(ledger, getRouteKey(origen, destino, fecha, horario))

\* bookSeat that creates the trip's set and adds nothing to it
bookSeatNoAdd(ledger, origen, destino, fecha, horario, asiento) ==
    LET key == getRouteKey(origen, destino, fecha, horario)
    IN  [k \in DOMAIN ledger \cup {key} |-> SeatsOf(ledger, k)]

\* the in-memory effect of bookSeat: the ledger after adding the seat
bookSeat(ledger, origen, destino, fecha, horario, asiento) ==
    LET key == getRouteKey(origen, destino, fecha, horario)
    IN  [k \in DOMAIN ledger \cup {key} |->
            IF k = key THEN SeatsOf(ledger, k) \cup {StringOf(asiento)}
            ELSE SeatsOf(ledger, k)]

(***************************************************************************)
(* dataStore.js (listed in GUIA_ADMINISTRADOR.md): JSON snapshots.         *)
(***************************************************************************)
RECURSIVE SetToArray(_)
SetToArray(S) ==
    IF S = {} THEN <<>>
    ELSE LET x == CHOOSE y \in S : TRUE IN <<x>> \o SetToArray(S \ {x})

ArrayToSet(a) == {a[i] : i \in 1..Len(a)}

\* what saveBookings writes: every Set as an array
SerializeBookings(ledger) == [k \in DOMAIN ledger |-> SetToArray(ledger[k])]

\* loadBookings with new Set() in place of new Set(value)
loadBookingsEmptySets(file) == [k \in DOMAIN file |-> {}]

\* what loadBookings rebuilds from the file
loadBookings(file) == [k \in DOMAIN file |-> ArrayToSet(file[k])]

\* what loadTickets rebuilds from the file (entries array -> Map)
loadTickets(file) == file

\* what loadRoutes parses from the file
loadRoutes(file) == file

(***************************************************************************)
(* Routes and fares.                                                       *)
(***************************************************************************)
RouteKeyOf(origen, destino) == origen \o <<"-">> \o destino

InitialRoutes ==
    (RouteKeyOf(<<"G", "d", "l">>, <<"M", "t", "y">>) :>
        [basePrice |-> 25,
         schedules |-> <<[id |-> 2, time |-> <<"10:00">>, price |-> 30]>>])

RECURSIVE FindSchedule(_, _)
\* schedules.find(s => s.time === horario): the first match, <<>> for undefined
FindSchedule(schedules, horario) ==
    IF schedules = <<>> THEN <<>>
    ELSE IF Head(schedules).time = horario THEN <<Head(schedules)>>
    ELSE FindSchedule(Tail(schedules), horario)

\* server.js 117-118
FinalPrice(routeData, horario) ==
    LET selectedSchedule == FindSchedule(routeData.schedules, horario)
    IN  IF selectedSchedule # <<>> THEN selectedSchedule[1].price ELSE routeData.basePrice

\* Math.round(price * 100) on whole-unit prices
ToCents(price) == price * 100

(***************************************************************************)
(* Requests a client may send to create-checkout-session.                  *)
(***************************************************************************)
BaseRequest ==
    [nombre |-> <<"A", "n", "a">>, numeroDocumento |-> <<"ID">>, email |-> <<"a@x.mx">>,
     origen |-> <<"G", "d", "l">>, destino |-> <<"M", "t", "y">>, asiento |-> Num(1),
     horario |-> <<"10:00">>, fecha |-> <<"2024-01-15">>, precio |-> 30]

CheckoutRequests ==
    {BaseRequest,
     [BaseRequest EXCEPT !.nombre = Missing],
     [BaseRequest EXCEPT !.numeroDocumento = Missing],
     [BaseRequest EXCEPT !.origen = <<"g", "d", "l">>],
     [BaseRequest EXCEPT !.fecha = <<"2024-01-16">>],
     [BaseRequest EXCEPT !.precio = 1]}

\* requests for a departure time that no schedule of the route has
UnscheduledRequests ==
    {[BaseRequest EXCEPT !.horario = <<"23:00">>],
     [BaseRequest EXCEPT !.horario = <<"23:00">>, !.precio = 1]}

(***************************************************************************)
(* The payment provider (stripe.checkout.sessions).                        *)
(***************************************************************************)
NoSession == [id |-> 0]

SessionExists(sid) == sid \in 1..Len(stripeSessions)

\* stripe.checkout.sessions.retrieve: the session, or NoSession when it throws
Retrieve(sid) == IF SessionExists(sid) THEN stripeSessions[sid] ELSE NoSession

NewSession(unitAmount, currency, metadata) ==
    [id |-> Len(stripeSessions) + 1, payment_status |-> "unpaid",
     amount_total |-> unitAmount, currency |-> currency, metadata |-> metadata]

\* the customer pays on the provider's hosted page
ProviderPay(sid) ==
    /\ SessionExists(sid)
    /\ stripeSessions[sid].payment_status = "unpaid"
    /\ stripeSessions' = [stripeSessions EXCEPT ![sid].payment_status = "paid"]
    /\ UNCHANGED <<deployment, serverVars, mvcVars, inflight, lastResponse, clock>>

\* the handlers' test of what the provider reports, always taken as paid
IsPaidAlways(session) == TRUE

\* session.payment_status === "paid" (server.js 219, paymentController.js 159)
IsPaid(session) == session.payment_status = "paid"

(***************************************************************************)
(* server.js / Backend/server.js: POST /api/create-checkout-session        *)
(***************************************************************************)
Monolith == deployment = "server"

\* an HTTP response: the endpoint that sent it, its status code, the payment
\* status its body reports ("error" for an error body, "none" when the body
\* reports none) and the sessionId of its body (0 when it has none)
Response(endpoint, status, outcome, sessionId) ==
    [endpoint |-> endpoint, status |-> status, outcome |-> outcome,
     sessionId |-> sessionId]
NoResponse == Response("none", 0, "none", 0)

\* the test of line 100 without the document number
CheckoutFieldsMissingNoDocument(req) ==
    \/ ~Truthy(req.nombre) \/ ~Truthy(req.origen) \/ ~Truthy(req.destino)
    \/ SeatFalsy(req.asiento) \/ ~Truthy(req.horario) \/ ~Truthy(req.fecha)

\* server.js 100
CheckoutFieldsMissing(req) ==
    \/ ~Truthy(req.nombre) \/ ~Truthy(req.origen) \/ ~Truthy(req.destino)
    \/ SeatFalsy(req.asiento) \/ ~Truthy(req.horario) \/ ~Truthy(req.fecha)
    \/ ~Truthy(req.numeroDocumento)

\* the amount computed from the routes the process started with
CheckoutAmountAtStart(routes, req) ==
    ToCents(FinalPrice(InitialRoutes[RouteKeyOf(req.origen, req.destino)], req.horario))

\* server.js 110-118, 153
CheckoutAmount(routes, req) ==
    ToCents(FinalPrice(routes[RouteKeyOf(req.origen, req.destino)], req.horario))

CheckoutMetadata(routes, req) ==
    [nombre |-> req.nombre, origen |-> req.origen, destino |-> req.destino,
     asiento |-> StringOf(req.asiento), horario |-> req.horario, fecha |-> req.fecha,
     precio |-> NumToString(FinalPrice(routes[RouteKeyOf(req.origen, req.destino)],
                                       req.horario))]

CreateCheckoutSession(req, providerOk) ==
    /\ Monolith
    /\ IF CheckoutFieldsMissing(req)
       THEN /\ lastResponse' = Response("checkout", 400, "error", 0)
            /\ UNCHANGED stripeSessions
       ELSE IF isSeatBooked(bookedSeatsByRoute, req.origen, req.destino, req.fecha,
                            req.horario, req.asiento)
       THEN /\ lastResponse' = Response("checkout", 409, "error", 0)
            /\ UNCHANGED stripeSessions
       ELSE IF RouteKeyOf(req.origen, req.destino) \notin DOMAIN availableRoutes
       THEN /\ lastResponse' = Response("checkout", 400, "error", 0)
            /\ UNCHANGED stripeSessions
       ELSE IF ~providerOk
       THEN /\ lastResponse' = Response("checkout", 500, "error", 0)
            /\ UNCHANGED stripeSessions
       ELSE /\ Len(stripeSessions) < MaxSessions
            /\ stripeSessions' = Append(stripeSessions,
                   NewSession(CheckoutAmount(availableRoutes, req),
                              "mxn",
                              CheckoutMetadata(availableRoutes, req)))
            /\ lastResponse' = Response("checkout", 200, "none", 0)
    /\ UNCHANGED <<deployment, serverVars, mvcVars, inflight, clock>>

(***************************************************************************)
(* server.js / Backend/server.js: GET /api/checkout/session                *)
(***************************************************************************)
\* A handler whose provider lookup found no paid session answers without
\* reading or writing local state, so its answer is taken at the lookup; a
\* handler that found a paid session is suspended with what it found.
Suspended(sid, session) == [kind |-> "confirm", sid |-> sid, session |-> session]

InFlight == BagCardinality(inflight)

\* server.js 208-224: the handler up to its answer or its resumption
ConfirmRetrieve(sid) ==
    /\ Monolith
    /\ InFlight < Cardinality(Concurrency)
    /\ LET session == Retrieve(sid)
       IN  IF session = NoSession
           THEN /\ lastResponse' = Response("confirm", 500, "error", 0)
                /\ UNCHANGED inflight
           ELSE IF ~IsPaid(session)
           THEN /\ lastResponse' = Response("confirm", 402, "error", 0)
                /\ UNCHANGED inflight
           ELSE /\ inflight' = inflight (+) SetToBag({Suspended(sid, session)})
                /\ UNCHANGED lastResponse
    /\ UNCHANGED <<deployment, serverVars, mvcVars, stripeSessions, clock>>

MetadataIncomplete(m) ==
    \/ ~Truthy(m.nombre) \/ ~Truthy(m.origen) \/ ~Truthy(m.destino)
    \/ ~Truthy(m.asiento) \/ ~Truthy(m.horario) \/ ~Truthy(m.fecha)

\* ticketData with amountPaid left in cents
TicketDataInCents(session, now) ==
    LET m == session.metadata
    IN  [sessionId |-> session.id, nombre |-> m.nombre, origen |-> m.origen,
         destino |-> m.destino, asiento |-> m.asiento, horario |-> m.horario,
         fecha |-> m.fecha, precio |-> ParseFloat(m.precio),
         amountPaid |-> session.amount_total, currency |-> session.currency,
         createdAt |-> now, paymentStatus |-> "paid"]

\* server.js 238-251
TicketData(session, now) ==
    LET m == session.metadata
    IN  [sessionId |-> session.id, nombre |-> m.nombre, origen |-> m.origen,
         destino |-> m.destino, asiento |-> m.asiento, horario |-> m.horario,
         fecha |-> m.fecha, precio |-> ParseFloat(m.precio),
         amountPaid |-> session.amount_total \div 100, currency |-> session.currency,
         createdAt |-> now, paymentStatus |-> "paid"]

\* server.js 258-264: status "paid" with the session's id, amount and boleto
PaidResponse(session) == Response("confirm", 200, "paid", session.id)

\* the boleto of the paid response: the passenger and trip of the session
Boleto(session) ==
    LET m == session.metadata
    IN  [nombre |-> m.nombre, origen |-> m.origen, destino |-> m.destino,
         asiento |-> m.asiento, horario |-> m.horario, fecha |-> m.fecha]

\* the ledger after lines 232-235
ClaimSeat(ledger, m) ==
    IF ~isSeatBooked(ledger, m.origen, m.destino, m.fecha, m.horario, Str(m.asiento))
    THEN bookSeat(ledger, m.origen, m.destino, m.fecha, m.horario, Str(m.asiento))
    ELSE ledger

\* the ticket store after line 253
StoreTicket(db, session, now) ==
    [k \in DOMAIN db \cup {session.id} |->
        IF k = session.id THEN TicketData(session, now) ELSE db[k]]

\* server.js 226-264: the resumed handler, to its response;
\* bookingsSaved / ticketsSaved: whether fs.writeFileSync succeeded in
\* saveBookings / saveTickets (both catch the error and return false)
ConfirmFinish(h, bookingsSaved, ticketsSaved) ==
    /\ Monolith
    /\ h \in BagToSet(inflight)
    /\ h.kind = "confirm"
    /\ inflight' = inflight (-) SetToBag({h})
    /\ IF MetadataIncomplete(h.session.metadata)
       THEN /\ bookingsSaved /\ ticketsSaved
            /\ lastResponse' = Response("confirm", 500, "error", 0)
            /\ UNCHANGED <<serverVars, clock>>
       ELSE /\ clock < MaxClock
            /\ clock' = clock + 1
            /\ bookedSeatsByRoute' = ClaimSeat(bookedSeatsByRoute, h.session.metadata)
            /\ bookedSeatsByRoute' = bookedSeatsByRoute => bookingsSaved
            /\ bookingsFile' =
                  IF bookedSeatsByRoute' # bookedSeatsByRoute /\ bookingsSaved
                  THEN SerializeBookings(bookedSeatsByRoute')
                  ELSE bookingsFile
            /\ ticketDatabase' = StoreTicket(ticketDatabase, h.session, clock')
            /\ ticketsFile' = IF ticketsSaved THEN ticketDatabase' ELSE ticketsFile
            /\ lastResponse' = PaidResponse(h.session)
            /\ UNCHANGED <<availableRoutes, routesFile>>
    /\ UNCHANGED <<deployment, mvcVars, stripeSessions>>

\* server.js 34-36: the process starts again from the JSON files
Restart ==
    /\ deployment = "server"
    /\ bookedSeatsByRoute' = loadBookings(bookingsFile)
    /\ availableRoutes' = loadRoutes(routesFile)
    /\ ticketDatabase' = loadTickets(ticketsFile)
    /\ inflight' = EmptyBag
    /\ UNCHANGED <<deployment, bookingsFile, ticketsFile, routesFile, mvcVars,
                   stripeSessions, lastResponse, clock>>

(***************************************************************************)
(* MVC backend: middleware/validation.js, controllers/paymentController.js *)
(* models/Payment.js, models/Booking.js.                                   *)
(***************************************************************************)
Mvc == deployment = "mvc"

\* the strings of the model that match /^[^\s@]+@[^\s@]+\.[^\s@]+$/
MatchesEmail(s) == s \in {<<"a@x.mx">>}

\* the strings of the model that match /^([01]?[0-9]|2[0-3]):[0-5][0-9]$/
MatchesHorario(s) == s \in {<<"10:00">>, <<"23:00">>}

\* the strings of the model that match /^\d{4}-\d{2}-\d{2}$/
MatchesFecha(s) == s \in {<<"2024-01-15">>, <<"2024-01-16">>}

TotalSeats == 48

\* validatePaymentData (the middleware of the route): TRUE when no error is
\* pushed; the controller's own call of validatePaymentData accepts what the
\* middleware has let through
PaymentDataValid(req) ==
    /\ Len(Trim(req.nombre)) >= 2
    /\ MatchesEmail(req.email)
    /\ Truthy(req.origen) /\ Truthy(req.destino)
    /\ req.asiento.t = "num" /\ req.asiento.v >= 1 /\ req.asiento.v <= TotalSeats
    /\ MatchesHorario(req.horario)
    /\ MatchesFecha(req.fecha)
    /\ req.precio > 0

PaymentRequests ==
    {BaseRequest,
     [BaseRequest EXCEPT !.nombre = Missing],
     [BaseRequest EXCEPT !.precio = 1]}

\* paymentController.js 68-76
PaymentMetadata(req) ==
    [passenger_name |-> req.nombre, origin |-> req.origen, destination |-> req.destino,
     seat |-> StringOf(req.asiento), schedule |-> req.horario, travel_date |-> req.fecha]

\* paymentController.js 80-95 through PaymentModel.createPayment
PaymentRecord(sid, req) ==
    [sessionId |-> sid, amount |-> req.precio, currency |-> "USD", status |-> "pending",
     attempts |-> 1,
     passengerData |-> [nombre |-> req.nombre, email |-> req.email, origen |-> req.origen,
                        destino |-> req.destino, asiento |-> req.asiento,
                        horario |-> req.horario, fecha |-> req.fecha]]

Put(map, key, value) ==
    [k \in DOMAIN map \cup {key} |-> IF k = key THEN value ELSE map[k]]

\* POST /api/payments/create-checkout-session
createCheckoutSession(req, providerOk) ==
    /\ Mvc
    /\ IF ~PaymentDataValid(req)
       THEN /\ lastResponse' = Response("checkout", 400, "error", 0)
            /\ UNCHANGED <<stripeSessions, payments>>
       ELSE IF ~providerOk
       THEN /\ lastResponse' = Response("checkout", 500, "error", 0)
            /\ UNCHANGED <<stripeSessions, payments>>
       ELSE /\ Len(stripeSessions) < MaxSessions
            /\ stripeSessions' = Append(stripeSessions,
                   NewSession(ToCents(req.precio), "usd", PaymentMetadata(req)))
            /\ payments' = Put(payments, Len(stripeSessions) + 1,
                               PaymentRecord(Len(stripeSessions) + 1, req))
            /\ lastResponse' = Response("checkout", 200, "none", Len(stripeSessions) + 1)
    /\ UNCHANGED <<deployment, serverVars, bookings, nextId, inflight, clock>>

\* PaymentModel.updatePaymentStatus: the payments after the call
updatePaymentStatus(pays, sid, newStatus) ==
    IF sid \notin DOMAIN pays THEN pays
    ELSE [pays EXCEPT ![sid] =
            [@ EXCEPT !.status = newStatus,
                      !.attempts = IF newStatus = "failed" THEN @ + 1 ELSE @]]

\* BookingModel.generateReference: the n-th reference the model generates
generateReference(n) == [by |-> "BookingModel", n |-> n]

\* generateBookingReference of utils/helpers: a reference of its own
generateBookingReference(n) == [by |-> "helpers", n |-> n]

NoReference == [by |-> "none", n |-> 0]

\* BookingModel.createBooking: the booking stored under the generated reference;
\* the fields of bookingData are spread over id and referencia
NewBooking(id, bookingData) ==
    [id |-> id,
     referencia |-> IF bookingData.referencia # NoReference THEN bookingData.referencia
                    ELSE generateReference(id),
     nombre |-> bookingData.nombre,
     email |-> bookingData.email, origen |-> bookingData.origen,
     destino |-> bookingData.destino, asiento |-> bookingData.asiento,
     horario |-> bookingData.horario, fecha |-> bookingData.fecha,
     routeId |-> bookingData.routeId,
     paymentSessionId |-> bookingData.paymentSessionId,
     estado |-> IF bookingData.estado # "" THEN bookingData.estado ELSE "pendiente",
     totalPagado |-> bookingData.totalPagado, version |-> 1]

\* paymentController.js 164-169
ConfirmedBookingData(paymentRecord, sid, session) ==
    [nombre |-> paymentRecord.passengerData.nombre,
     email |-> paymentRecord.passengerData.email,
     origen |-> paymentRecord.passengerData.origen,
     destino |-> paymentRecord.passengerData.destino,
     asiento |-> paymentRecord.passengerData.asiento,
     horario |-> paymentRecord.passengerData.horario,
     fecha |-> paymentRecord.passengerData.fecha,
     routeId |-> 0, referencia |-> NoReference,
     paymentSessionId |-> sid, estado |-> "confirmada",
     totalPagado |-> session.amount_total \div 100]

\* paymentController.js 159, without the test of the local status
ShouldCompleteAlways(session, paymentRecord) == IsPaid(session)

\* paymentController.js 159
ShouldComplete(session, paymentRecord) ==
    IsPaid(session) /\ paymentRecord.status # "completed"

\* paymentController.js 125-156: the handler up to its answer or its resumption
VerifyRetrieve(sid) ==
    /\ Mvc
    /\ InFlight < Cardinality(Concurrency)
    /\ LET session == Retrieve(sid)
       IN  IF session = NoSession
           THEN /\ lastResponse' = Response("verify", 500, "error", 0)
                /\ UNCHANGED inflight
           ELSE IF sid \notin DOMAIN payments
           THEN /\ lastResponse' = Response("verify", 404, "error", 0)
                /\ UNCHANGED inflight
           ELSE IF ~IsPaid(session)
           THEN /\ lastResponse' = Response("verify", 200, session.payment_status, sid)
                /\ UNCHANGED inflight
           ELSE /\ inflight' = inflight (+) SetToBag({[kind |-> "verify", sid |-> sid,
                                                       session |-> session]})
                /\ UNCHANGED lastResponse
    /\ UNCHANGED <<deployment, serverVars, mvcVars, stripeSessions, clock>>

\* paymentController.js 148-195: the resumed handler, to its response
VerifyFinish(h) ==
    /\ Mvc
    /\ h \in BagToSet(inflight)
    /\ h.kind = "verify"
    /\ inflight' = inflight (-) SetToBag({h})
    /\ IF h.sid \notin DOMAIN payments
       THEN /\ lastResponse' = Response("verify", 404, "error", 0)
            /\ UNCHANGED mvcVars
       ELSE /\ IF ShouldComplete(h.session, payments[h.sid])
               THEN /\ payments' = updatePaymentStatus(payments, h.sid, "completed")
                    /\ bookings' = Put(bookings, generateReference(nextId),
                          NewBooking(nextId,
                              ConfirmedBookingData(payments[h.sid], h.sid, h.session)))
                    /\ nextId' = nextId + 1
               ELSE UNCHANGED mvcVars
            /\ lastResponse' = Response("verify", 200, h.session.payment_status, h.sid)
    /\ UNCHANGED <<deployment, serverVars, stripeSessions, clock>>

\* the webhook handler with the catch of constructEvent never taken
SignatureRejectedNever(signatureValid) == FALSE

\* paymentController.js 220-225: stripe.webhooks.constructEvent throws
SignatureRejected(signatureValid) == ~signatureValid

\* paymentController.js 213-256 with 263-275: a checkout.session.completed
\* event; signed events come from the provider, for sessions it has paid
WebhookCheckoutCompleted(sid, signatureValid) ==
    /\ Mvc
    /\ signatureValid => SessionExists(sid) /\ stripeSessions[sid].payment_status = "paid"
    /\ IF SignatureRejected(signatureValid)
       THEN /\ lastResponse' = Response("webhook", 400, "error", 0)
            /\ UNCHANGED payments
       ELSE /\ payments' = updatePaymentStatus(payments, sid, "completed")
            /\ lastResponse' = Response("webhook", 200, "none", 0)
    /\ UNCHANGED <<deployment, serverVars, bookings, nextId, stripeSessions, inflight, clock>>

(***************************************************************************)
(* MVC backend: POST /api/bookings (routes/bookings.js, BookingController, *)
(* models/Route.js, models/Booking.js).                                    *)
(***************************************************************************)
\* RouteModel.routesData
routesData ==
    (RouteKeyOf(<<"G", "d", "l">>, <<"M", "t", "y">>) :>
        [id |-> 1, origen |-> <<"G", "d", "l">>, destino |-> <<"M", "t", "y">>,
         schedules |-> <<[id |-> 2, time |-> <<"10:00">>, price |-> 30]>>])

\* RouteModel.getRouteById: the route keys holding a schedule of that id
\* (the empty set for null)
getRouteById(scheduleId) ==
    {routeKey \in DOMAIN routesData :
        \E i \in 1..Len(routesData[routeKey].schedules) :
            routesData[routeKey].schedules[i].id = scheduleId}

\* the strings of the model that match /^[\+]?[\d\s\-\(\)]{8,20}$/
MatchesTelefono(s) == s \in {<<"55 1234 5678">>}

MaxPrecio == 1000

\* validateBookingData (the middleware of the route): TRUE when no error is
\* pushed; the dates of the model are not before today, and the controller's
\* own call of validateBookingData accepts what the middleware has let through
BookingDataValid(req) ==
    /\ Len(Trim(req.nombre)) >= 2
    /\ MatchesEmail(req.email)
    /\ MatchesTelefono(req.telefono)
    /\ Len(Trim(req.origen)) >= 2 /\ Len(Trim(req.destino)) >= 2
    /\ ToLowerCase(Trim(req.origen)) # ToLowerCase(Trim(req.destino))
    /\ req.asiento.t = "num" /\ req.asiento.v >= 1 /\ req.asiento.v <= TotalSeats
    /\ MatchesHorario(req.horario)
    /\ MatchesFecha(req.fecha)
    /\ req.precio > 0 /\ req.precio <= MaxPrecio

BaseBooking ==
    [nombre |-> BaseRequest.nombre, email |-> BaseRequest.email,
     telefono |-> <<"55 1234 5678">>, origen |-> BaseRequest.origen,
     destino |-> BaseRequest.destino, asiento |-> BaseRequest.asiento,
     horario |-> BaseRequest.horario, fecha |-> BaseRequest.fecha,
     precio |-> BaseRequest.precio, routeId |-> 2]

BookingRequests ==
    {BaseBooking,
     [BaseBooking EXCEPT !.telefono = Missing],
     [BaseBooking EXCEPT !.routeId = 0]}

\* isSeatAvailable that counts cancelled bookings too
isSeatAvailableAnyState(store, routeId, asiento, fecha) ==
    ~\E ref \in DOMAIN store :
        /\ store[ref].routeId = routeId
        /\ store[ref].asiento = asiento
        /\ store[ref].fecha = fecha

\* BookingModel.isSeatAvailable
isSeatAvailable(store, routeId, asiento, fecha) ==
    ~\E ref \in DOMAIN store :
        /\ store[ref].routeId = routeId
        /\ store[ref].asiento = asiento
        /\ store[ref].fecha = fecha
        /\ store[ref].estado # "cancelada"

\* BookingModel.getOccupiedSeats, as a set
getOccupiedSeats(store, routeId, fecha) ==
    {store[ref].asiento : ref \in
        {r \in DOMAIN store : /\ store[r].routeId = routeId
                               /\ store[r].fecha = fecha
                               /\ store[r].estado # "cancelada"}}

\* BookingController.createBooking 67-73
PendingBookingData(req, reference) ==
    [nombre |-> req.nombre, email |-> req.email, origen |-> req.origen,
     destino |-> req.destino, asiento |-> req.asiento, horario |-> req.horario,
     fecha |-> req.fecha, routeId |-> req.routeId, referencia |-> reference,
     paymentSessionId |-> 0, estado |-> "pendiente", totalPagado |-> 0]

\* POST /api/bookings
createBooking(req) ==
    /\ Mvc
    /\ IF ~BookingDataValid(req)
       THEN /\ lastResponse' = Response("booking", 400, "error", 0)
            /\ UNCHANGED <<bookings, nextId>>
       ELSE IF getRouteById(req.routeId) = {}
       THEN /\ lastResponse' = Response("booking", 404, "error", 0)
            /\ UNCHANGED <<bookings, nextId>>
       ELSE IF ~isSeatAvailable(bookings, req.routeId, req.asiento, req.fecha)
       THEN /\ lastResponse' = Response("booking", 409, "error", 0)
            /\ UNCHANGED <<bookings, nextId>>
       ELSE /\ bookings' = Put(bookings, generateReference(nextId),
                   NewBooking(nextId,
                       PendingBookingData(req, generateBookingReference(nextId))))
            /\ nextId' = nextId + 1
            /\ lastResponse' = Response("booking", 201, "none", 0)
    /\ UNCHANGED <<deployment, serverVars, payments, stripeSessions, inflight, clock>>

(***************************************************************************)
(* Specification.                                                          *)
(***************************************************************************)
EmptyMap == [k \in {} |-> {}]

Init ==
    /\ deployment \in {"server", "mvc"}
    /\ availableRoutes = InitialRoutes
    /\ bookedSeatsByRoute = EmptyMap
    /\ ticketDatabase = EmptyMap
    /\ bookingsFile = EmptyMap
    /\ ticketsFile = EmptyMap
    /\ routesFile = InitialRoutes
    /\ stripeSessions = <<>>
    /\ inflight = EmptyBag
    /\ lastResponse = NoResponse
    /\ clock = 0
    /\ payments = EmptyMap
    /\ bookings = EmptyMap
    /\ nextId = 1

\* every handler runs to completion and every storage write succeeds
Next ==
    \/ \E req \in CheckoutRequests, ok \in BOOLEAN : CreateCheckoutSession(req, ok)
    \/ \E sid \in SessionIds : ProviderPay(sid)
    \/ \E sid \in SessionIds : ConfirmRetrieve(sid)
    \/ \E h \in BagToSet(inflight) : ConfirmFinish(h, TRUE, TRUE)
    \/ \E req \in PaymentRequests, ok \in BOOLEAN : createCheckoutSession(req, ok)
    \/ \E sid \in SessionIds : VerifyRetrieve(sid)
    \/ \E h \in BagToSet(inflight) : VerifyFinish(h)
    \/ \E sid \in SessionIds, sig \in BOOLEAN : WebhookCheckoutCompleted(sid, sig)

Spec == Init /\ [][Next]_vars

\* a process that runs server.js
InitStorage == Init /\ deployment = "server"

\* server.js alone, every storage write succeeding
NextServer ==
    \/ \E req \in CheckoutRequests, ok \in BOOLEAN : CreateCheckoutSession(req, ok)
    \/ \E sid \in SessionIds : ProviderPay(sid)
    \/ \E sid \in SessionIds : ConfirmRetrieve(sid)
    \/ \E h \in BagToSet(inflight) : ConfirmFinish(h, TRUE, TRUE)

\* server.js with clients that also ask for a time the route does not run at
NextFares ==
    \/ NextServer
    \/ \E req \in UnscheduledRequests, ok \in BOOLEAN : CreateCheckoutSession(req, ok)

SpecFares == InitStorage /\ [][NextFares]_vars

\* the checkout and confirmation flows together with POST /api/bookings
NextBookings ==
    \/ Next
    \/ \E req \in BookingRequests : createBooking(req)

SpecBookings == Init /\ [][NextBookings]_vars

\* server.js with storage writes that may fail and a process that may restart

NextStorage ==
    \/ \E req \in CheckoutRequests, ok \in BOOLEAN : CreateCheckoutSession(req, ok)
    \/ \E sid \in SessionIds : ProviderPay(sid)
    \/ \E sid \in SessionIds : ConfirmRetrieve(sid)
    \/ \E h \in BagToSet(inflight), b \in BOOLEAN, t \in BOOLEAN : ConfirmFinish(h, b, t)
    \/ Restart

SpecStorage == InitStorage /\ [][NextStorage]_vars

(***************************************************************************)
(* Properties: vocabulary.                                                 *)
(***************************************************************************)
\* the trip instance named by a ticket or by a session's metadata
TripOf(m) == getRouteKey(m.origen, m.destino, m.fecha, m.horario)

SameTripAndSeat(a, b) == TripOf(a) = TripOf(b) /\ a.asiento = b.asiento

SeatIn(ledger, m) == m.asiento \in SeatsOf(ledger, TripOf(m))

\* a step in which the confirm handler of h runs lines 226-264 to its response
ClaimAttempt(h) ==
    /\ \E b \in BOOLEAN, t \in BOOLEAN : ConfirmFinish(h, b, t)
    /\ ~MetadataIncomplete(h.session.metadata)

\* no trip of the ledger loses a seat
LedgerGrowsOnly ==
    \A k \in DOMAIN bookedSeatsByRoute :
        /\ k \in DOMAIN bookedSeatsByRoute'
        /\ bookedSeatsByRoute[k] \subseteq bookedSeatsByRoute'[k]

BookingsOf(sid) == {r \in DOMAIN bookings : bookings[r].paymentSessionId = sid}

(***************************************************************************)
(* C1  Claiming a seat (server.js 232-235) is exclusive: an attempt adds   *)
(* the seat only when the trip's set does not hold it (success), an        *)
(* attempt that finds it there leaves the ledger as it is (already         *)
(* occupied), after either the seat is in the ledger, and no seat ever     *)
(* leaves the ledger; so of any number of attempts on one trip and seat,   *)
(* in any order, at most one succeeds.                                     *)
(***************************************************************************)
C1_AtMostOneClaimSucceeds ==
    [][/\ LedgerGrowsOnly
       /\ \A h \in BagToSet(inflight) :
            ClaimAttempt(h) =>
                LET m == h.session.metadata
                IN  /\ SeatIn(bookedSeatsByRoute', m)
                    /\ SeatIn(bookedSeatsByRoute, m) =>
                          bookedSeatsByRoute' = bookedSeatsByRoute
                    /\ ~SeatIn(bookedSeatsByRoute, m) =>
                          \A k \in DOMAIN bookedSeatsByRoute' :
                              bookedSeatsByRoute'[k] =
                                  SeatsOf(bookedSeatsByRoute, k) \cup
                                  (IF k = TripOf(m) THEN {m.asiento} ELSE {})]_vars

\* two paid sessions naming one trip and seat have both been confirmed
C1_TwoAttemptsOnOneSeat ==
    \E s1 \in DOMAIN ticketDatabase, s2 \in DOMAIN ticketDatabase :
        /\ s1 # s2
        /\ SameTripAndSeat(ticketDatabase[s1], ticketDatabase[s2])
        /\ SeatIn(bookedSeatsByRoute, ticketDatabase[s1])

(***************************************************************************)
(* C2  A confirmation whose seat is already held by another session's      *)
(* ticket does not answer paid and stores no ticket for its session.       *)
(***************************************************************************)
ClaimedByOther(h) ==
    \E s \in DOMAIN ticketDatabase :
        s # h.sid /\ SameTripAndSeat(ticketDatabase[s], h.session.metadata)

C2_ConflictedConfirmFails ==
    [][\A h \in BagToSet(inflight) :
          ClaimAttempt(h) /\ ClaimedByOther(h) /\ h.sid \notin DOMAIN ticketDatabase =>
              /\ lastResponse'.outcome # "paid"
              /\ h.sid \notin DOMAIN ticketDatabase']_vars

(***************************************************************************)
(* C3  No two tickets stored under different session ids name the same     *)
(* trip instance and the same seat.                                        *)
(***************************************************************************)
C3_NoSeatSoldTwice ==
    \A s1 \in DOMAIN ticketDatabase, s2 \in DOMAIN ticketDatabase :
        s1 # s2 => ~SameTripAndSeat(ticketDatabase[s1], ticketDatabase[s2])

(***************************************************************************)
(* C4  Confirming a session again after it has been confirmed answers as   *)
(* the first time and adds nothing: in server.js the ledger and the set of *)
(* tickets are unchanged, the session's ticket keeps every field but       *)
(* createdAt and the response is the paid response of that session; in the *)
(* MVC backend, with the payment completed and its booking stored, the     *)
(* payment records and the bookings are unchanged.                         *)
(***************************************************************************)
Confirmed(sid) ==
    /\ sid \in DOMAIN payments
    /\ payments[sid].status = "completed"
    /\ \E r \in BookingsOf(sid) : bookings[r].estado = "confirmada"

OrderOf(session) ==
    IF "precio" \in DOMAIN session.metadata
    THEN [session.metadata EXCEPT !.precio = <<>>]
    ELSE session.metadata

AuthoritativeAmount(session) ==
    LET m == session.metadata
    IN  IF Monolith
        THEN ToCents(FinalPrice(availableRoutes[RouteKeyOf(m.origen, m.destino)],
                                m.horario))
        ELSE ToCents(FindSchedule(routesData[RouteKeyOf(m.origin, m.destination)].schedules,
                                  m.schedule)[1].price)

C5_ChargeIgnoresClientPrice ==
    \A i \in 1..Len(stripeSessions), j \in 1..Len(stripeSessions) :
        /\ OrderOf(stripeSessions[i]) = OrderOf(stripeSessions[j]) =>
              stripeSessions[i].amount_total = stripeSessions[j].amount_total
        /\ stripeSessions[i].amount_total = AuthoritativeAmount(stripeSessions[i])

(***************************************************************************)
(* C6  However confirm calls for one paid session interleave, at most one  *)
(* booking carries that payment session id.                                *)
(***************************************************************************)
C6_OneBookingPerSession ==
    \A sid \in SessionIds : Cardinality(BookingsOf(sid)) <= 1

\* one call has created the booking while another call for the same session,
\* suspended on the provider before that, has still to resume
C6_SecondCallStillSuspended ==
    \E h \in BagToSet(inflight) :
        /\ h.kind = "verify"
        /\ BookingsOf(h.sid) # {}
        /\ lastResponse = Response("verify", 200, "paid", h.sid)

(***************************************************************************)
(* C7  Once verifyPaymentSession has answered for a paid session, a        *)
(* confirmed booking of that session exists, wherever the webhook fell.    *)
(***************************************************************************)
C7_VerifiedSessionHasBooking ==
    (/\ lastResponse.endpoint = "verify"
     /\ lastResponse.status = 200
     /\ lastResponse.outcome = "paid") =>
        \E r \in BookingsOf(lastResponse.sessionId) : bookings[r].estado = "confirmada"

(***************************************************************************)
(* C8  Opening a checkout or a booking never occupies a seat: a seat       *)
(* becomes occupied only in the step that completes the confirmation of a  *)
(* session the provider reported as paid.                                  *)
(***************************************************************************)
\* the occupied seats of server.js: the pairs of a trip key and a seat
ServerOccupied(ledger) ==
    {ks \in (DOMAIN ledger) \X (UNION {ledger[k] : k \in DOMAIN ledger}) :
        ks[2] \in ledger[ks[1]]}

\* the occupied seats of the MVC backend: what getOccupiedSeats reports
MvcOccupied(store) ==
    {<<store[r].routeId, store[r].fecha, store[r].asiento>> :
        r \in {x \in DOMAIN store : store[x].estado # "cancelada"}}

C8_SeatsEnterOnlyAtPaidConfirm ==
    [][/\ (\E req \in CheckoutRequests, ok \in BOOLEAN : CreateCheckoutSession(req, ok))
            => bookedSeatsByRoute' = bookedSeatsByRoute
       /\ (\E req \in PaymentRequests, ok \in BOOLEAN : createCheckoutSession(req, ok))
            => MvcOccupied(bookings') = MvcOccupied(bookings)
       /\ (\/ ~(ServerOccupied(bookedSeatsByRoute') \subseteq
                    ServerOccupied(bookedSeatsByRoute))
           \/ ~(MvcOccupied(bookings') \subseteq MvcOccupied(bookings)))
            => \E h \in BagToSet(inflight) :
                  /\ h.session.payment_status = "paid"
                  /\ ClaimAttempt(h) \/ VerifyFinish(h)]_vars

(***************************************************************************)
(* C9  A seat is in the ledger's set of a trip exactly when a ticket names *)
(* that trip and seat (a claim in flight never spans two states: the seat  *)
(* and the ticket are stored in one step of the handler).                  *)
(***************************************************************************)
C9_SeatInLedgerIffTicket ==
    /\ \A ks \in ServerOccupied(bookedSeatsByRoute) :
          \E s \in DOMAIN ticketDatabase :
              /\ TripOf(ticketDatabase[s]) = ks[1]
              /\ ticketDatabase[s].asiento = ks[2]
    /\ \A s \in DOMAIN ticketDatabase : SeatIn(bookedSeatsByRoute, ticketDatabase[s])

(***************************************************************************)
(* C10  A confirm call for a session the provider does not report as paid  *)
(* answers with an outcome other than paid and changes no store: the       *)
(* ledger, the tickets, their files, the payment records and the bookings  *)
(* are as before, in every step of its handler.                            *)
(***************************************************************************)
NotReportedPaid(sid) ==
    ~SessionExists(sid) \/ stripeSessions[sid].payment_status # "paid"

StoresUnchanged ==
    UNCHANGED <<bookedSeatsByRoute, ticketDatabase, bookingsFile, ticketsFile,
                payments, bookings, nextId>>

C10_UnpaidConfirmHasNoEffect ==
    [][/\ \A sid \in SessionIds :
            (ConfirmRetrieve(sid) \/ VerifyRetrieve(sid)) /\ NotReportedPaid(sid) =>
                /\ StoresUnchanged
                /\ lastResponse'.endpoint \in {"confirm", "verify"}
                /\ lastResponse'.outcome # "paid"
                /\ inflight' = inflight
       /\ \A h \in BagToSet(inflight) :
            /\ h.session.payment_status # "paid"
            /\ (\E b \in BOOLEAN, t \in BOOLEAN : ConfirmFinish(h, b, t)) \/ VerifyFinish(h)
            => StoresUnchanged /\ lastResponse'.outcome # "paid"]_vars

\* server.js has answered 402 for an unpaid session while it holds a ticket
C10_UnpaidAnswered ==
    /\ lastResponse = Response("confirm", 402, "error", 0)
    /\ ticketDatabase # EmptyMap
    /\ \E sid \in 1..Len(stripeSessions) : stripeSessions[sid].payment_status = "unpaid"

(***************************************************************************)
(* C11  Fare resolution finds nothing, and no payment session is opened,   *)
(* when the route does not exist and when the route has no schedule at the *)
(* requested time; a session is opened only for an existing schedule of an *)
(* existing route.                                                         *)
(***************************************************************************)
FareFound(routes, req) ==
    /\ RouteKeyOf(req.origen, req.destino) \in DOMAIN routes
    /\ \E i \in 1..Len(routes[RouteKeyOf(req.origen, req.destino)].schedules) :
          routes[RouteKeyOf(req.origen, req.destino)].schedules[i].time = req.horario

C11_NoFareNoSession ==
    [][\A req \in CheckoutRequests \cup UnscheduledRequests, ok \in BOOLEAN :
          CreateCheckoutSession(req, ok) /\ ~FareFound(availableRoutes, req) =>
              /\ stripeSessions' = stripeSessions
              /\ lastResponse'.outcome = "error"]_vars

(***************************************************************************)
(* C12  A create-checkout-session request that is rejected for a missing   *)
(* field, an occupied seat or an unknown route opens no payment session    *)
(* and leaves the ledger, the tickets, their files, the payment records    *)
(* and the bookings as they were; the same holds for a request the MVC     *)
(* backend rejects as invalid.                                             *)
(***************************************************************************)
\* the three reasons of server.js 100-113, spelled out
FieldAbsent(req) ==
    \E f \in {"nombre", "numeroDocumento", "origen", "destino", "horario", "fecha"} :
        req[f] = <<>>

SeatTaken(req) ==
    StringOf(req.asiento) \in
        SeatsOf(bookedSeatsByRoute, getRouteKey(req.origen, req.destino, req.fecha, req.horario))

RouteUnknown(req) == RouteKeyOf(req.origen, req.destino) \notin DOMAIN availableRoutes

C12_RejectedCheckoutChangesNothing ==
    [][/\ \A req \in CheckoutRequests, ok \in BOOLEAN :
            /\ CreateCheckoutSession(req, ok)
            /\ FieldAbsent(req) \/ SeatTaken(req) \/ RouteUnknown(req)
            => /\ lastResponse'.endpoint = "checkout"
               /\ lastResponse'.status \in {400, 409}
               /\ stripeSessions' = stripeSessions
               /\ StoresUnchanged
       /\ \A req \in PaymentRequests, ok \in BOOLEAN :
            /\ createCheckoutSession(req, ok)
            /\ req.nombre = <<>>
            => /\ lastResponse' = Response("checkout", 400, "error", 0)
               /\ stripeSessions' = stripeSessions
               /\ StoresUnchanged]_vars

\* server.js has refused a checkout for a seat that a ticket holds
C12_OccupiedSeatRefused ==
    /\ lastResponse = Response("checkout", 409, "error", 0)
    /\ ticketDatabase # EmptyMap

(***************************************************************************)
(* The trip key and the ledger on free-form inputs (server.js 46-65).      *)
(***************************************************************************)
\* spellings of one origin that differ in case and surrounding whitespace
GdlSpellings ==
    { <<"G", "d", "l">>, <<" ", "G", "d", "l">>, <<"g", "d", "l", " ", " ">> }

\* spellings of one destination
MtySpellings ==
    { <<"M", "t", "y">>, <<" ", "m", "t", "y", " ">> }

\* travel dates as the client sends them; the third extends the first
TripDates ==
    { <<"2024-01-15">>, <<"2024-01-16">>, <<"2024-01-15", "|", "10:00">> }

TripTimes == { <<"10:00">> }

TripSeats == { Num(1), Str(<<"1">>), Num(2), Num(3) }

\* server.js 56-65: one call of bookSeat, with its saveBookings
BookSeat(origen, destino, fecha, horario, asiento) ==
    /\ Monolith
    /\ bookedSeatsByRoute' =
          bookSeat(bookedSeatsByRoute, origen, destino, fecha, horario, asiento)
    /\ bookingsFile' = SerializeBookings(bookedSeatsByRoute')
    /\ UNCHANGED <<deployment, availableRoutes, ticketDatabase, ticketsFile, routesFile,
                   mvcVars, stripeSessions, inflight, lastResponse, clock>>

NextTripKeys ==
    \E origen \in GdlSpellings, destino \in MtySpellings, fecha \in TripDates,
       horario \in TripTimes, asiento \in TripSeats :
        BookSeat(origen, destino, fecha, horario, asiento)

SpecTripKeys == InitStorage /\ [][NextTripKeys]_vars

\* every spelling gives the key and the occupancy answer of the plain one
SpellingsShareKey ==
    \A origen \in GdlSpellings, destino \in MtySpellings, fecha \in TripDates,
       horario \in TripTimes :
        /\ getRouteKey(origen, destino, fecha, horario)
             = getRouteKey(<<"G", "d", "l">>, <<"M", "t", "y">>, fecha, horario)
        /\ \A asiento \in TripSeats :
              isSeatBooked(bookedSeatsByRoute, origen, destino, fecha, horario, asiento)
                = isSeatBooked(bookedSeatsByRoute, <<"G", "d", "l">>, <<"M", "t", "y">>,
                               fecha, horario, asiento)

\* distinct dates give distinct keys
DatesSeparateKeys ==
    \A o1, o2 \in GdlSpellings, d1, d2 \in MtySpellings, f1, f2 \in TripDates,
       horario \in TripTimes :
        f1 # f2 => getRouteKey(o1, d1, f1, horario) # getRouteKey(o2, d2, f2, horario)

\* the seats a query finds occupied on one date and time, under any spelling
OccupiedOn(ledger, fecha, horario) ==
    { StringOf(asiento) : asiento \in
        { a \in TripSeats : \E origen \in GdlSpellings, destino \in MtySpellings :
            isSeatBooked(ledger, origen, destino, fecha, horario, a) } }

\* the dates whose occupancy a step changes
DatesChanged ==
    { fecha \in TripDates : \E horario \in TripTimes :
        OccupiedOn(bookedSeatsByRoute', fecha, horario)
          # OccupiedOn(bookedSeatsByRoute, fecha, horario) }

\* a call of bookSeat changes the occupancy of at most one date
DatesSeparateOccupancy == \A f1, f2 \in DatesChanged : f1 = f2

\* C13: spellings of origin and destination that differ only in case and
\* surrounding whitespace give the same trip key and the same occupancy,
\* and the same route and time on two distinct dates give different keys
\* and never share occupancy.
C13_KeyNormalizesAndSeparatesDates ==
    /\ [](SpellingsShareKey /\ DatesSeparateKeys)
    /\ [][DatesSeparateOccupancy]_vars

\* a seat was booked under one spelling and is occupied under another, while
\* the same seat on another date is free
C13_BookedUnderOtherSpelling ==
    /\ DOMAIN bookedSeatsByRoute =
          {getRouteKey(<<"G", "d", "l">>, <<"M", "t", "y">>, <<"2024-01-15">>, <<"10:00">>)}
    /\ isSeatBooked(bookedSeatsByRoute, <<"g", "d", "l", " ", " ">>,
                    <<" ", "m", "t", "y", " ">>, <<"2024-01-15">>, <<"10:00">>, Str(<<"1">>))
    /\ ~isSeatBooked(bookedSeatsByRoute, <<"G", "d", "l">>, <<"M", "t", "y">>,
                     <<"2024-01-16">>, <<"10:00">>, Num(1))

(***************************************************************************)
(* MVC backend: DELETE /api/bookings/:referencia (BookingController        *)
(* cancelBooking, BookingModel.updateBooking).                             *)
(***************************************************************************)
MaxBookings == 3

\* the references a client can put in the URL: the keys of the store and the
\* references the controller hands out
References ==
    {generateReference(n) : n \in 1..MaxBookings}
        \cup {generateBookingReference(n) : n \in 1..MaxBookings}

CancelMotivos == {Missing, <<"plan">>}

\* BookingModel.updateBooking: the store after the update (unchanged for null)
updateBooking(store, referencia, updateData) ==
    IF referencia \notin DOMAIN store THEN store
    ELSE Put(store, referencia,
             [version |-> store[referencia].version + 1]
                 @@ updateData @@ store[referencia])

\* DELETE /api/bookings/:referencia
cancelBooking(referencia, motivo) ==
    /\ Mvc
    /\ IF referencia \notin DOMAIN bookings
       THEN /\ lastResponse' = Response("cancel", 404, "error", 0)
            /\ UNCHANGED bookings
       ELSE IF bookings[referencia].estado = "cancelada"
       THEN /\ lastResponse' = Response("cancel", 400, "error", 0)
            /\ UNCHANGED bookings
       ELSE /\ bookings' = updateBooking(bookings, referencia,
                   [estado |-> "cancelada",
                    motivoCancelacion |->
                        IF Truthy(motivo) THEN motivo ELSE <<"solicitada">>,
                    fechaCancelacion |-> clock])
            /\ lastResponse' = Response("cancel", 200, "none", 0)
    /\ UNCHANGED <<deployment, serverVars, payments, nextId, stripeSessions,
                   inflight, clock>>

\* the bodies of POST /api/bookings: two seats of one trip
SeatRequests == {BaseBooking, [BaseBooking EXCEPT !.asiento = Num(2)]}

InitMvc == Init /\ deployment = "mvc"

NextCancel ==
    \/ \E req \in SeatRequests : nextId <= MaxBookings /\ createBooking(req)
    \/ \E referencia \in References, motivo \in CancelMotivos :
          cancelBooking(referencia, motivo)

SpecCancel == InitMvc /\ [][NextCancel]_vars

\* the bookings of the store for the seat and trip of a request
BookingsFor(req) ==
    {ref \in DOMAIN bookings :
        /\ bookings[ref].routeId = req.routeId
        /\ bookings[ref].asiento = req.asiento
        /\ bookings[ref].fecha = req.fecha}

\* the seat of the request was booked and every booking of it is cancelled
Released(req) ==
    /\ BookingsFor(req) # {}
    /\ \A ref \in BookingsFor(req) : bookings[ref].estado = "cancelada"

\* C14: a seat that was booked for a trip and released by a cancellation is
\* free again: the next booking of the same seat and trip is created.
C14_ReleasedSeatCanBeBookedAgain ==
    [][\A req \in SeatRequests :
          createBooking(req) /\ Released(req) =>
              /\ lastResponse' = Response("booking", 201, "none", 0)
              /\ \E ref \in DOMAIN bookings' \ DOMAIN bookings :
                    /\ bookings'[ref].asiento = req.asiento
                    /\ bookings'[ref].fecha = req.fecha
                    /\ bookings'[ref].estado = "pendiente"]_vars

\* a seat booked again after its cancellation
C14_BookedAfterCancel ==
    /\ lastResponse = Response("booking", 201, "none", 0)
    /\ \E r1, r2 \in DOMAIN bookings :
          /\ bookings[r1].estado = "cancelada"
          /\ bookings[r2].estado = "pendiente"
          /\ bookings[r1].id < bookings[r2].id
          /\ bookings[r1].asiento = bookings[r2].asiento
          /\ bookings[r1].fecha = bookings[r2].fecha
          /\ bookings[r1].routeId = bookings[r2].routeId

\* C15: cancelling a booking that is already cancelled changes nothing and is
\* not answered as an error.
C15_CancelOfCancelledIsNoOp ==
    [][\A referencia \in References, motivo \in CancelMotivos :
          /\ cancelBooking(referencia, motivo)
          /\ referencia \in DOMAIN bookings
          /\ bookings[referencia].estado = "cancelada"
          => /\ bookings' = bookings
             /\ lastResponse'.outcome # "error"]_vars

(***************************************************************************)
(* MVC backend: PUT /api/bookings/:referencia/status.                      *)
(***************************************************************************)
MaxVersion == 3

validStates == {"pendiente", "confirmada", "cancelada", "completada"}

\* the estado of the body
StatusInputs == {"confirmada", "completada", "otro"}

\* PUT /api/bookings/:referencia/status: the check of the route, then
\* BookingController.updateBookingStatus
updateBookingStatus(referencia, estado, paymentSessionId) ==
    /\ Mvc
    /\ IF estado \notin validStates
       THEN /\ lastResponse' = Response("status", 400, "error", 0)
            /\ UNCHANGED bookings
       ELSE IF referencia \notin DOMAIN bookings
       THEN /\ lastResponse' = Response("status", 404, "error", 0)
            /\ UNCHANGED bookings
       ELSE /\ bookings' = updateBooking(bookings, referencia,
                   IF paymentSessionId # 0
                   THEN [estado |-> estado, paymentSessionId |-> paymentSessionId]
                   ELSE [estado |-> estado])
            /\ lastResponse' = Response("status", 200, "none", 0)
    /\ UNCHANGED <<deployment, serverVars, payments, nextId, stripeSessions,
                   inflight, clock>>

NextStatus ==
    \/ \E req \in SeatRequests : nextId < MaxBookings /\ createBooking(req)
    \/ \E referencia \in References, motivo \in CancelMotivos :
          cancelBooking(referencia, motivo)
    \/ \E referencia \in References, estado \in StatusInputs, paymentSessionId \in {0, 1} :
          /\ referencia \in DOMAIN bookings => bookings[referencia].version < MaxVersion
          /\ updateBookingStatus(referencia, estado, paymentSessionId)

SpecStatus == InitMvc /\ [][NextStatus]_vars

\* C16: a cancel of a booking that is already cancelled or completed is
\* refused and leaves the booking store, and with it the occupancy, unchanged.
C16_TerminalBookingNotCancelled ==
    [][\A referencia \in References, motivo \in CancelMotivos :
          /\ cancelBooking(referencia, motivo)
          /\ referencia \in DOMAIN bookings
          /\ bookings[referencia].estado \in {"cancelada", "completada"}
          => /\ lastResponse'.outcome = "error"
             /\ bookings' = bookings]_vars

(***************************************************************************)
(* MVC backend: POST /api/payments/:sessionId/refund (routes/payments.js,  *)
(* PaymentModel.processRefund).                                            *)
(***************************************************************************)
\* the amount of the body; 0 for a body without one
RefundAmounts == {0, 10}

\* POST /api/payments/:sessionId/refund
processRefund(sid, amount) ==
    /\ Mvc
    /\ IF sid \notin DOMAIN payments
       THEN /\ lastResponse' = Response("refund", 404, "error", sid)
            /\ UNCHANGED payments
       ELSE IF payments[sid].status # "completed"
       THEN /\ lastResponse' = Response("refund", 500, "error", sid)
            /\ UNCHANGED payments
       ELSE /\ payments' =
                  [k \in DOMAIN payments |->
                      IF k = sid
                      THEN [refundAmount |->
                               IF amount # 0 THEN amount ELSE payments[sid].amount]
                           @@ updatePaymentStatus(payments, sid, "refunded")[sid]
                      ELSE payments[k]]
            /\ lastResponse' = Response("refund", 200, "none", sid)
    /\ UNCHANGED <<deployment, serverVars, bookings, nextId, stripeSessions,
                   inflight, clock>>

\* the payment routes of the MVC backend
NextPayments ==
    \/ \E req \in PaymentRequests, ok \in BOOLEAN : createCheckoutSession(req, ok)
    \/ \E sid \in SessionIds : ProviderPay(sid)
    \/ \E sid \in SessionIds : VerifyRetrieve(sid)
    \/ \E h \in BagToSet(inflight) : nextId <= MaxBookings /\ VerifyFinish(h)
    \/ \E sid \in SessionIds, sig \in BOOLEAN : WebhookCheckoutCompleted(sid, sig)
    \/ \E sid \in SessionIds, amount \in RefundAmounts : processRefund(sid, amount)

SpecPayments == InitMvc /\ [][NextPayments]_vars

\* PaymentModel.PAYMENT_STATES without 'pending'
TerminalStates == {"completed", "failed", "cancelled", "refunded"}

\* C17: a payment record in a terminal status keeps that status, except that
\* a completed one may become refunded.
C17_TerminalStatusIsFinal ==
    [][\A sid \in DOMAIN payments :
          /\ payments[sid].status \in TerminalStates
          /\ payments'[sid].status # payments[sid].status
          => /\ payments[sid].status = "completed"
             /\ payments'[sid].status = "refunded"]_vars

\* C18: a ticket stored under a session id stays in the store with every
\* field as it was stored.
C18_TicketsAreImmutable ==
    [][\A sid \in DOMAIN ticketDatabase :
          /\ sid \in DOMAIN ticketDatabase'
          /\ ticketDatabase'[sid] = ticketDatabase[sid]]_vars

C20_UnsignedWebhookChangesNothing ==
    [][\A sid \in SessionIds :
          WebhookCheckoutCompleted(sid, FALSE) =>
              /\ lastResponse' = Response("webhook", 400, "error", 0)
              /\ stripeSessions' = stripeSessions
              /\ StoresUnchanged]_vars

\* a delivery was rejected while a paid session's payment was still pending
C20_RejectedWhilePending ==
    /\ lastResponse = Response("webhook", 400, "error", 0)
    /\ \E sid \in DOMAIN payments :
          /\ payments[sid].status = "pending"
          /\ SessionExists(sid)
          /\ stripeSessions[sid].payment_status = "paid"

\* the ledger and the tickets a restart would load agree seat by seat
PersistedAgree ==
    /\ \A ks \in ServerOccupied(loadBookings(bookingsFile)) :
          \E s \in DOMAIN loadTickets(ticketsFile) :
              /\ TripOf(loadTickets(ticketsFile)[s]) = ks[1]
              /\ loadTickets(ticketsFile)[s].asiento = ks[2]
    /\ \A s \in DOMAIN loadTickets(ticketsFile) :
          SeatIn(loadBookings(bookingsFile), loadTickets(ticketsFile)[s])

\* a confirm whose saveBookings or saveTickets failed answers with an error
WriteFailureReported ==
    \A h \in BagToSet(inflight), b \in BOOLEAN, t \in BOOLEAN :
        ConfirmFinish(h, b, t) /\ ~(b /\ t) => lastResponse'.outcome = "error"

\* C21: the persisted ledger and the persisted tickets never disagree on a
\* seat, and a confirm whose storage write failed answers with an error, not
\* with a paid confirmation.
C21_ConfirmWritesAreAtomic ==
    /\ []PersistedAgree
    /\ [][WriteFailureReported]_vars

(***************************************************************************)
(* MVC backend: payment, webhook and refund together with the booking      *)
(* routes.                                                                 *)
(***************************************************************************)
NextRefunds ==
    \/ \E req \in PaymentRequests : createCheckoutSession(req, TRUE)
    \/ \E sid \in SessionIds : ProviderPay(sid)
    \/ \E sid \in SessionIds : WebhookCheckoutCompleted(sid, TRUE)
    \/ \E sid \in SessionIds, amount \in RefundAmounts : processRefund(sid, amount)
    \/ nextId < MaxBookings /\ createBooking(BaseBooking)
    \/ \E referencia \in References, sid \in SessionIds :
          /\ referencia \in DOMAIN bookings => bookings[referencia].version < MaxVersion
          /\ updateBookingStatus(referencia, "confirmada", sid)

SpecRefunds == InitMvc /\ [][NextRefunds]_vars

\* the bookings paid by a session that carry the route id occupancy is
\* reported by
PaidBookings(store, sid) ==
    {ref \in DOMAIN store :
        store[ref].paymentSessionId = sid /\ store[ref].routeId # 0}

\* C22: once the refund of a session has been processed, the seat of the
\* booking paid by that session is no longer among the occupied seats of its
\* trip.
C22_RefundReleasesSeat ==
    [][\A sid \in SessionIds, amount \in RefundAmounts :
          /\ processRefund(sid, amount)
          /\ lastResponse'.status = 200
          => \A ref \in PaidBookings(bookings', sid) :
                bookings'[ref].asiento \notin
                    getOccupiedSeats(bookings', bookings'[ref].routeId,
                                     bookings'[ref].fecha)]_vars

(***************************************************************************)
(* server.js with clients that name a seat the bus does not have.          *)
(***************************************************************************)
OffBusRequests ==
    {[BaseRequest EXCEPT !.asiento = Num(49)],
     [BaseRequest EXCEPT !.asiento = Str(<<"A", "1">>)]}

NextSeats ==
    \/ NextServer
    \/ \E req \in OffBusRequests, ok \in BOOLEAN : CreateCheckoutSession(req, ok)

SpecSeats == InitStorage /\ [][NextSeats]_vars

\* the seat identifiers of the bus, as the ledger writes them
BusSeats == {NumToString(n) : n \in 1..TotalSeats}

\* C23: every seat in the ledger is one of the seats 1..48 of the bus.
C23_LedgerSeatsAreOnTheBus ==
    \A key \in DOMAIN bookedSeatsByRoute : bookedSeatsByRoute[key] \subseteq BusSeats

(***************************************************************************)
(* server.js 323-545: the administration of routes and schedules, and      *)
(* GET /api/ticket/:sessionId.                                             *)
(***************************************************************************)
\* Date.now() + index of lines 344-347: the ids given to new schedules
NewScheduleId(index) == 100 + index

\* the schedules of the body, each with the id of lines 344-347
SchedulesWithIds(schedules) ==
    [i \in 1..Len(schedules) |->
        [id |-> NewScheduleId(i - 1), time |-> schedules[i].time,
         price |-> schedules[i].price]]

\* the routes after saveRoutes, when the write succeeded or failed
SavedRoutes(routes, saved) == IF saved THEN routes ELSE routesFile

\* a map without one of its keys
Without(map, key) == [k \in DOMAIN map \ {key} |-> map[k]]

\* POST /api/admin/routes; basePrice 0 and schedules <<>> stand for a body
\* without the field (duration is always sent)
CreateRoute(origin, destination, basePrice, schedules, saved) ==
    /\ Monolith
    /\ IF ~Truthy(origin) \/ ~Truthy(destination) \/ basePrice = 0 \/ schedules = <<>>
       THEN /\ lastResponse' = Response("admin", 400, "error", 0)
            /\ UNCHANGED <<availableRoutes, routesFile>>
       ELSE IF RouteKeyOf(origin, destination) \in DOMAIN availableRoutes
       THEN /\ lastResponse' = Response("admin", 409, "error", 0)
            /\ UNCHANGED <<availableRoutes, routesFile>>
       ELSE /\ availableRoutes' =
                  Put(availableRoutes, RouteKeyOf(origin, destination),
                      [basePrice |-> basePrice, schedules |-> SchedulesWithIds(schedules)])
            /\ routesFile' = SavedRoutes(availableRoutes', saved)
            /\ lastResponse' = Response("admin", 200, "none", 0)
    /\ UNCHANGED <<deployment, bookedSeatsByRoute, ticketDatabase, bookingsFile,
                   ticketsFile, mvcVars, stripeSessions, inflight, clock>>

\* DELETE /api/admin/routes/:routeKey
DeleteRoute(routeKey, saved) ==
    /\ Monolith
    /\ IF routeKey \notin DOMAIN availableRoutes
       THEN /\ lastResponse' = Response("admin", 404, "error", 0)
            /\ UNCHANGED <<availableRoutes, routesFile>>
       ELSE /\ availableRoutes' = Without(availableRoutes, routeKey)
            /\ routesFile' = SavedRoutes(availableRoutes', saved)
            /\ lastResponse' = Response("admin", 200, "none", 0)
    /\ UNCHANGED <<deployment, bookedSeatsByRoute, ticketDatabase, bookingsFile,
                   ticketsFile, mvcVars, stripeSessions, inflight, clock>>

\* schedules.findIndex(s => s.id === parseInt(scheduleId)): 0 for -1
ScheduleIndex(schedules, scheduleId) ==
    IF \E i \in 1..Len(schedules) : schedules[i].id = scheduleId
    THEN CHOOSE i \in 1..Len(schedules) :
            /\ schedules[i].id = scheduleId
            /\ \A j \in 1..(i - 1) : schedules[j].id # scheduleId
    ELSE 0

\* PUT /api/admin/routes/:routeKey/schedules/:scheduleId with a body that
\* carries a price (0 for a body without one)
UpdateSchedule(routeKey, scheduleId, price, saved) ==
    /\ Monolith
    /\ IF routeKey \notin DOMAIN availableRoutes
       THEN /\ lastResponse' = Response("admin", 404, "error", 0)
            /\ UNCHANGED <<availableRoutes, routesFile>>
       ELSE IF ScheduleIndex(availableRoutes[routeKey].schedules, scheduleId) = 0
       THEN /\ lastResponse' = Response("admin", 404, "error", 0)
            /\ UNCHANGED <<availableRoutes, routesFile>>
       ELSE /\ availableRoutes' =
                  [availableRoutes EXCEPT
                      ![routeKey].schedules[ScheduleIndex(
                          availableRoutes[routeKey].schedules, scheduleId)].price =
                          IF price # 0 THEN price ELSE @]
            /\ routesFile' = SavedRoutes(availableRoutes', saved)
            /\ lastResponse' = Response("admin", 200, "none", 0)
    /\ UNCHANGED <<deployment, bookedSeatsByRoute, ticketDatabase, bookingsFile,
                   ticketsFile, mvcVars, stripeSessions, inflight, clock>>

\* a sequence without its i-th element (splice(i, 1))
Splice(seq, i) == SubSeq(seq, 1, i - 1) \o SubSeq(seq, i + 1, Len(seq))

\* DELETE /api/admin/routes/:routeKey/schedules/:scheduleId
DeleteSchedule(routeKey, scheduleId, saved) ==
    /\ Monolith
    /\ IF routeKey \notin DOMAIN availableRoutes
       THEN /\ lastResponse' = Response("admin", 404, "error", 0)
            /\ UNCHANGED <<availableRoutes, routesFile>>
       ELSE IF ScheduleIndex(availableRoutes[routeKey].schedules, scheduleId) = 0
       THEN /\ lastResponse' = Response("admin", 404, "error", 0)
            /\ UNCHANGED <<availableRoutes, routesFile>>
       ELSE /\ availableRoutes' =
                  [availableRoutes EXCEPT
                      ![routeKey].schedules = Splice(@, ScheduleIndex(@, scheduleId))]
            /\ routesFile' = SavedRoutes(availableRoutes', saved)
            /\ lastResponse' = Response("admin", 200, "none", 0)
    /\ UNCHANGED <<deployment, bookedSeatsByRoute, ticketDatabase, bookingsFile,
                   ticketsFile, mvcVars, stripeSessions, inflight, clock>>

\* a lookup that finds a ticket only while its route is still listed
FindTicketOfListedRoute(db, sid) ==
    IF /\ sid \in DOMAIN db
       /\ RouteKeyOf(db[sid].origen, db[sid].destino) \in DOMAIN availableRoutes
    THEN <<db[sid]>>
    ELSE <<>>

\* ticketDatabase.get(sessionId): <<>> for undefined
FindTicket(db, sid) == IF sid \in DOMAIN db THEN <<db[sid]>> ELSE <<>>

\* GET /api/ticket/:sessionId
GetTicket(sid) ==
    /\ Monolith
    /\ lastResponse' =
          IF FindTicket(ticketDatabase, sid) # <<>>
          THEN Response("ticket", 200, FindTicket(ticketDatabase, sid)[1].paymentStatus, sid)
          ELSE Response("ticket", 404, "error", 0)
    /\ UNCHANGED <<deployment, serverVars, mvcVars, stripeSessions, inflight, clock>>

\* the cities of the routes an administrator creates
AdminCities == {<<"G", "d", "l">>}

\* a checkout for a trip from a city to itself
LoopRequests == {[BaseRequest EXCEPT !.destino = <<"G", "d", "l">>]}

\* server.js with an administrator who creates routes
NextAdmin ==
    \/ NextServer
    \/ \E req \in LoopRequests, ok \in BOOLEAN : CreateCheckoutSession(req, ok)
    \/ \E origin \in AdminCities, destination \in AdminCities, basePrice \in {0, 25} :
          CreateRoute(origin, destination, basePrice,
                      <<[time |-> <<"10:00">>, price |-> 30]>>, TRUE)

SpecAdmin == InitStorage /\ [][NextAdmin]_vars

\* origin and destination name one city
SameCity(m) == ToLowerCase(Trim(m.origen)) = ToLowerCase(Trim(m.destino))

\* C24: no checkout session and no ticket goes from a city to itself.
C24_NoTripToItself ==
    /\ \A sid \in 1..Len(stripeSessions) : ~SameCity(stripeSessions[sid].metadata)
    /\ \A sid \in DOMAIN ticketDatabase : ~SameCity(ticketDatabase[sid])

(***************************************************************************)
(* server.js: checkouts and payments while an administrator changes the    *)
(* price of a schedule.                                                    *)
(***************************************************************************)
\* the price of the body; 0 for a body without one
SchedulePrices == {0, 30, 40}

\* the schedule ids of the URL
ScheduleIds == {2, 3}

NextPrices ==
    \/ \E req \in CheckoutRequests, ok \in BOOLEAN : CreateCheckoutSession(req, ok)
    \/ \E sid \in SessionIds : ProviderPay(sid)
    \/ \E routeKey \in DOMAIN InitialRoutes, scheduleId \in ScheduleIds,
          price \in SchedulePrices :
          UpdateSchedule(routeKey, scheduleId, price, TRUE)

SpecPrices == InitStorage /\ [][NextPrices]_vars

\* the prices the route of the request lists now for the time of the request
ListedPrices(req) ==
    LET schedules == availableRoutes[RouteKeyOf(req.origen, req.destino)].schedules
    IN  {schedules[i].price : i \in {j \in 1..Len(schedules) :
                                        schedules[j].time = req.horario}}

\* C25: a checkout session opened for a schedule charges the price that the
\* routes list for that schedule at the moment the session is opened.
C25_SessionChargesCurrentPrice ==
    [][\A req \in CheckoutRequests, ok \in BOOLEAN :
          /\ CreateCheckoutSession(req, ok)
          /\ Len(stripeSessions') = Len(stripeSessions) + 1
          /\ ListedPrices(req) # {}
          => \E price \in ListedPrices(req) :
                stripeSessions'[Len(stripeSessions')].amount_total = price * 100]_vars

\* a session opened at 30 and, after the price change, a session at 40
C25_ChargedOldThenNew ==
    /\ Len(stripeSessions) = 2
    /\ stripeSessions[1].amount_total = 3000
    /\ stripeSessions[2].amount_total = 4000
    /\ stripeSessions[1].metadata.horario = stripeSessions[2].metadata.horario
    /\ ListedPrices(BaseRequest) = {40}

(***************************************************************************)
(* server.js with storage writes that succeed and a process that restarts. *)
(***************************************************************************)
NextRestart ==
    \/ NextServer
    \/ Restart

SpecRestart == InitStorage /\ [][NextRestart]_vars

TicketRequests == {BaseRequest, [BaseRequest EXCEPT !.fecha = <<"2024-01-16">>]}

NextDeletes ==
    \/ \E req \in TicketRequests : CreateCheckoutSession(req, TRUE)
    \/ \E sid \in SessionIds : ProviderPay(sid)
    \/ \E sid \in SessionIds : ConfirmRetrieve(sid)
    \/ \E h \in BagToSet(inflight) : ConfirmFinish(h, TRUE, TRUE)
    \/ \E routeKey \in DOMAIN InitialRoutes : DeleteRoute(routeKey, TRUE)
    \/ \E routeKey \in DOMAIN InitialRoutes, scheduleId \in ScheduleIds :
          DeleteSchedule(routeKey, scheduleId, TRUE)
    \/ \E sid \in SessionIds : GetTicket(sid)

SpecDeletes == InitStorage /\ [][NextDeletes]_vars

\* a step of one of the two DELETE handlers
AdminDelete ==
    \/ \E routeKey \in DOMAIN InitialRoutes : DeleteRoute(routeKey, TRUE)
    \/ \E routeKey \in DOMAIN InitialRoutes, scheduleId \in ScheduleIds :
          DeleteSchedule(routeKey, scheduleId, TRUE)

\* C27: deleting a route or a schedule leaves the tickets, the ledger and
\* their files as they were, and every stored ticket is still returned by
\* GET /api/ticket/:sessionId.
C27_DeletesKeepTickets ==
    [][/\ AdminDelete =>
            UNCHANGED <<ticketDatabase, bookedSeatsByRoute, ticketsFile, bookingsFile>>
       /\ \A sid \in SessionIds :
            GetTicket(sid) /\ sid \in DOMAIN ticketDatabase =>
                lastResponse' = Response("ticket", 200, "paid", sid)]_vars

\* a ticket fetched after its route was deleted
C27_TicketOfDeletedRoute ==
    /\ lastResponse.endpoint = "ticket"
    /\ lastResponse.status = 200
    /\ lastResponse.sessionId \in DOMAIN ticketDatabase
    /\ RouteKeyOf(ticketDatabase[lastResponse.sessionId].origen,
                  ticketDatabase[lastResponse.sessionId].destino)
          \notin DOMAIN availableRoutes

\* BookingModel.getBookingByReference: <<>> for null
getBookingByReference(store, referencia) ==
    IF referencia \in DOMAIN store THEN <<store[referencia]>> ELSE <<>>

\* C28: the referencia of every stored booking, which is the reference its
\* creation returned, is the key of the store under which that booking is
\* found.
C28_ReferenceFindsBooking ==
    \A key \in DOMAIN bookings :
        getBookingByReference(bookings, bookings[key].referencia) = <<bookings[key]>>

\* the payment carries the refund data of an earlier processRefund
RefundedBefore(sid) == "refundAmount" \in DOMAIN payments[sid]

\* C29: a refund of an unknown session or of a payment that is not completed
\* is answered with an error and changes no payment record, and no payment
\* is refunded a second time.
C29_RefundOnlyOnceAndOnlyCompleted ==
    [][\A sid \in SessionIds, amount \in RefundAmounts :
          processRefund(sid, amount) =>
              IF sid \notin DOMAIN payments \/ payments[sid].status # "completed"
              THEN /\ lastResponse'.outcome = "error"
                   /\ payments' = payments
              ELSE ~RefundedBefore(sid)]_vars

\* C30: no two bookings of the store that are not cancelled hold the same
\* seat of the same route on the same date.
C30_NoTwoLiveBookingsOnOneSeat ==
    \A r1, r2 \in DOMAIN bookings :
        /\ r1 # r2
        /\ bookings[r1].estado # "cancelada"
        /\ bookings[r2].estado # "cancelada"
        /\ bookings[r1].routeId = bookings[r2].routeId
        /\ bookings[r1].fecha = bookings[r2].fecha
        => bookings[r1].asiento # bookings[r2].asiento

====
